---- MODULE Spec2Model ----
(***************************************************************************)
(* ApiHelper: a wrapper around a requests session with a base URL, a       *)
(* default timeout, a urllib3 retry strategy, bearer authentication and a  *)
(* decorator that turns request exceptions into the value False.           *)
(*                                                                         *)
(* Times are in milliseconds (backoff_factor 0.3 s = 300 ms); timeouts are *)
(* in seconds, as in the source.                                           *)
(***************************************************************************)
EXTENDS Integers, Sequences, FiniteSets, TLC

\* ---------------------------------------------------------------- bounds

\* How many redirects the server answers within one call.
MaxRedirects == 2

\* ------------------------------------------------------- program constants

REQUEST_TIMEOUT == 5
RetryTotal == 3
BackoffFactorMs == 300

NoException == "none"

\* ------------------------------------------------------------------- URLs
\* A URL is its scheme, its network location and its path split at "/",
\* as str.split does: "/v1/users" is <<"", "v1", "users">>, "" is <<"">>.

Url(scheme, netloc, path) == [scheme |-> scheme, netloc |-> netloc, path |-> path]

EmptyUrl == Url("", "", <<"">>)

BaseRoot == Url("https", "api.example.com", <<"">>)
BaseV1 == Url("https", "api.example.com", <<"", "api", "v1">>)

\* baseurl arguments of the constructor: None or a base URL.
BaseUrls == {EmptyUrl, BaseRoot, BaseV1}

RelUsers == Url("", "", <<"", "v1", "users">>)
RelPlain == Url("", "", <<"users">>)
AbsUsers == Url("https", "api.example.com", <<"", "v1", "users">>)
AbsOther == Url("http", "other.example.org", <<"", "x">>)

\* url arguments of the verb methods.
CallUrls == {RelUsers, RelPlain, AbsUsers, AbsOther}

\* Location headers a redirect response may carry.
RedirectTargets == {AbsUsers, AbsOther}

IsAbsolute(u) == u.scheme # ""
IsRooted(u) == Len(u.path) > 0 /\ u.path[1] = "" /\ Len(u.path) > 1

\* list[:-1]
Front(s) == SubSeq(s, 1, Len(s) - 1)

\* segments[1:-1] = filter(None, segments[1:-1])
RECURSIVE FilterEmpty(_)
FilterEmpty(s) ==
    IF s = <<>> THEN <<>>
    ELSE IF Head(s) = "" THEN FilterEmpty(Tail(s))
    ELSE <<Head(s)>> \o FilterEmpty(Tail(s))

FilterInner(s) ==
    IF Len(s) <= 2 THEN s
    ELSE <<s[1]>> \o FilterEmpty(SubSeq(s, 2, Len(s) - 1)) \o <<s[Len(s)]>>

\* The loop of urljoin that resolves "." and ".." segments.
RECURSIVE ResolveDots(_, _)
ResolveDots(segments, resolved) ==
    IF segments = <<>> THEN resolved
    ELSE IF Head(segments) = ".."
        THEN ResolveDots(Tail(segments),
                         IF resolved = <<>> THEN <<>> ELSE Front(resolved))
    ELSE IF Head(segments) = "." THEN ResolveDots(Tail(segments), resolved)
    ELSE ResolveDots(Tail(segments), Append(resolved, Head(segments)))

\* '/'.join(resolved_path) or '/'
JoinedPath(resolved) ==
    IF resolved = <<>> \/ resolved = <<"">> THEN <<"", "">> ELSE resolved

\* urllib.parse.urljoin(base, url), for URLs without params, query, fragment.
urljoin(base, url) ==
    IF base = EmptyUrl THEN url
    ELSE IF url = EmptyUrl THEN base
    ELSE IF IsAbsolute(url) /\ url.scheme # base.scheme THEN url
    ELSE IF url.netloc # "" THEN Url(base.scheme, url.netloc, url.path)
    ELSE IF url.path = <<"">> THEN Url(base.scheme, base.netloc, base.path)
    ELSE
        LET base_parts ==
                IF base.path[Len(base.path)] # "" THEN Front(base.path)
                ELSE base.path
            segments ==
                IF url.path[1] = "" /\ Len(url.path) > 1 THEN url.path
                ELSE FilterInner(base_parts \o url.path)
            resolved == ResolveDots(segments, <<>>)
            closed ==
                IF segments[Len(segments)] \in {".", ".."}
                THEN Append(resolved, "") ELSE resolved
        IN  Url(base.scheme, base.netloc, JoinedPath(closed))

\* ------------------------------------------------------------- exceptions
\* The classes the decorator names, those requests raises, and their bases.

Bases(cls) ==
    CASE cls = "HTTPError" -> {"RequestException"}
      [] cls = "ConnectionError" -> {"RequestException"}
      [] cls = "Timeout" -> {"RequestException"}
      [] cls = "ConnectTimeout" -> {"ConnectionError", "Timeout"}
      [] cls = "ReadTimeout" -> {"Timeout"}
      [] cls = "RetryError" -> {"RequestException"}
      [] cls = "MissingSchema" -> {"RequestException", "ValueError"}
      [] cls = "RequestException" -> {"IOError"}
      [] cls = "RequestsWarning" -> {"Warning"}
      [] cls = "MaxRetryError" -> {"Exception"}
      [] cls = "ValueError" -> {"Exception"}
      [] cls = "IOError" -> {"Exception"}
      [] cls = "Warning" -> {"Exception"}
      [] OTHER -> {}

RECURSIVE IsInstance(_, _)
IsInstance(exc, cls) ==
    exc = cls \/ \E b \in Bases(exc) : IsInstance(b, cls)

\* The decorator without its clause for RequestException.
ExceptClauses_NoGeneric ==
    <<"HTTPError", "ConnectionError", "Timeout", "RequestsWarning",
      "MaxRetryError">>

\* The except clauses of the decorator, in order.
ExceptClauses ==
    <<"HTTPError", "ConnectionError", "Timeout", "RequestException",
      "RequestsWarning", "MaxRetryError">>

\* ------------------------------------------------------------- responses

NoHeader == "None"
RetryAfterHeaders == {NoHeader, "0", "5"}

Statuses == {200, 204, 302, 404, 413, 429, 500, 503}

TransportErrors == {"NewConnectionError", "ConnectTimeoutError", "ReadTimeoutError"}

Response(status, retry_after, location) ==
    [status |-> status, retry_after |-> retry_after, location |-> location,
     error |-> NoException]

TransportError(err) ==
    [status |-> 0, retry_after |-> NoHeader, location |-> EmptyUrl, error |-> err]

NoResponse == TransportError(NoException)

\* What one attempt on the wire may come back with.
Outcomes ==
    {Response(st, ra, EmptyUrl) : st \in Statuses \ {302}, ra \in RetryAfterHeaders}
    \cup {Response(302, NoHeader, loc) : loc \in RedirectTargets}
    \cup {TransportError(e) : e \in TransportErrors}

\* ------------------------------------------------------------ retry policy

AllowedMethods ==
    {"HEAD", "GET", "PUT", "POST", "PATCH", "DELETE", "OPTIONS", "TRACE"}

StatusForcelist == {429, 500, 502, 503, 504}

\* Retry.RETRY_AFTER_STATUS_CODES
RetryAfterStatusCodes == {413, 429, 503}

\* The policy with total counting the attempts, not the retries.
DefaultRetryStrategy_TotalAttempts ==
    [total |-> RetryTotal - 1,
     redirect |-> 16,
     backoff_factor |-> BackoffFactorMs,
     status_forcelist |-> {429, 500, 502, 503, 504},
     allowed_methods |->
         {"HEAD", "GET", "PUT", "POST", "PATCH", "DELETE", "OPTIONS", "TRACE"},
     respect_retry_after_header |-> TRUE,
     history |-> 0]

\* The policy with the Retry-After header ignored.
DefaultRetryStrategy_NoRetryAfter ==
    [total |-> RetryTotal,
     redirect |-> 16,
     backoff_factor |-> BackoffFactorMs,
     status_forcelist |-> {429, 500, 502, 503, 504},
     allowed_methods |->
         {"HEAD", "GET", "PUT", "POST", "PATCH", "DELETE", "OPTIONS", "TRACE"},
     respect_retry_after_header |-> FALSE,
     history |-> 0]

\* history is the number of entries of Retry.history: none of them is a
\* redirect, since the adapter calls urlopen with redirect=False.
DefaultRetryStrategy ==
    [total |-> RetryTotal,
     redirect |-> 16,
     backoff_factor |-> BackoffFactorMs,
     status_forcelist |-> StatusForcelist,
     allowed_methods |-> AllowedMethods,
     respect_retry_after_header |-> TRUE,
     history |-> 0]

is_method_retryable(retry, method) == method \in retry.allowed_methods

has_retry_after(resp) == resp.retry_after # NoHeader

is_retry(retry, method, resp) ==
    /\ is_method_retryable(retry, method)
    /\ \/ resp.status \in retry.status_forcelist
       \/ /\ retry.total # 0
          /\ retry.respect_retry_after_header
          /\ has_retry_after(resp)
          /\ resp.status \in RetryAfterStatusCodes

\* Retry.increment: a new Retry object; self is left as it was.
incremented(retry) ==
    [retry EXCEPT !.total = @ - 1, !.history = @ + 1]

is_exhausted(retry) == retry.total < 0

Pow2(n) == IF n <= 0 THEN 1 ELSE 2 ^ n

Min(a, b) == IF a <= b THEN a ELSE b

get_backoff_time(retry) ==
    IF retry.history <= 1 THEN 0
    ELSE Min(120000, retry.backoff_factor * Pow2(retry.history - 1))

\* Retry.parse_retry_after, for the integer form of the header, in seconds.
parse_retry_after(header) ==
    CASE header = "0" -> 0
      [] header = "5" -> 5
      [] OTHER -> 0

\* Retry.sleep: the time slept before the next attempt, in milliseconds.
sleep_time(retry, resp) ==
    IF /\ retry.respect_retry_after_header
       /\ resp.error = NoException
       /\ has_retry_after(resp)
       /\ parse_retry_after(resp.retry_after) > 0
    THEN 1000 * parse_retry_after(resp.retry_after)
    ELSE get_backoff_time(retry)

\* HTTPAdapter.send: the requests exception a MaxRetryError becomes.
MaxRetryErrorAs(resp) ==
    IF resp.error = "ConnectTimeoutError" THEN "ConnectTimeout"
    ELSE IF resp.error = NoException THEN "RetryError"
    ELSE "ConnectionError"

\* ---------------------------------------------------------------- state

Helpers == {"h1", "h2"}

NoAuth == "None"
Tokens == {"abc123"}

\* auth arguments of the verb methods: None, or a BearerAuth of the caller's.
CallAuths == {NoAuth, "xyz789"}

\* hooks arguments of the verb methods: None, or a response hook of the
\* caller's that leaves the response as it is.
NoHooks == <<>>
CallHooks == {NoHooks, <<"caller_hook">>}

\* A timeout argument: None, or a number of seconds.
NoTimeout == [given |-> FALSE, seconds |-> 0]
Timeout(v) == [given |-> TRUE, seconds |-> v]

\* timeout arguments of the verb methods.
CallTimeouts == {NoTimeout, Timeout(10), Timeout(0)}

\* Authorization headers a caller may pass in headers=.
CallerAuthHeaders == {NoAuth, "Basic zzz"}

Prefixes == {"https://", "http://"}

\* requests.Session() mounts a plain HTTPAdapter for both prefixes.
PlainAdapter == [cls |-> "HTTPAdapter", timeout |-> NoTimeout]

\* TimeoutHTTPAdapter.__init__ with no timeout argument.
TimeoutHTTPAdapter_init ==
    [cls |-> "TimeoutHTTPAdapter", timeout |-> Timeout(REQUEST_TIMEOUT)]

NoHelper ==
    [state |-> "none", cls |-> "none", base_url |-> EmptyUrl, auth |-> NoAuth,
     closed |-> FALSE, body_exc |-> FALSE,
     adapters |-> [p \in Prefixes |-> PlainAdapter],
     hooks |-> <<>>]

NoRequest ==
    [method |-> "", url |-> EmptyUrl, authorization |-> NoAuth,
     timeout |-> NoTimeout]

NoCall ==
    [h |-> "h1", method |-> "", url |-> EmptyUrl, timeout |-> NoTimeout,
     auth |-> NoAuth, hooks |-> NoHooks, allow_redirects |-> FALSE]

NoResult == [kind |-> "none", value |-> NoResponse]
False == [kind |-> "False", value |-> NoResponse]
Returned(r) == [kind |-> "response", value |-> r]
Propagated == [kind |-> "raised", value |-> NoResponse]

VARIABLES
    default_retry_strategy, \* the module-level Retry object
    helper,                 \* the ApiHelper objects
    pc,                     \* where the verb call in progress stands
    call,                   \* its arguments
    req,                    \* the prepared request
    retries,                \* urlopen's Retry object
    attempts,               \* attempts urlopen has made for this request
    sleeps,                 \* the delays slept between them, in order
    pure,                   \* each of their outcomes was a forcelist status
                            \* without a Retry-After header
    resp,                   \* the outcome of the last attempt
    exc,                    \* the exception travelling to the decorator
    result,                 \* what the verb method gave its caller
    redirects,              \* redirects followed by this call
    sent                    \* the last request handed to the transport

vars ==
    <<default_retry_strategy, helper, pc, call, req, retries, attempts,
      sleeps, pure, resp, exc, result, redirects, sent>>

callVars ==
    <<call, req, retries, attempts, sleeps, pure, resp, exc, result,
      redirects, sent>>

Init ==
    /\ default_retry_strategy = DefaultRetryStrategy
    /\ helper = [h \in Helpers |-> NoHelper]
    /\ pc = "idle"
    /\ call = NoCall
    /\ req = NoRequest
    /\ retries = DefaultRetryStrategy
    /\ attempts = 0
    /\ sleeps = <<>>
    /\ pure = TRUE
    /\ resp = NoResponse
    /\ exc = NoException
    /\ result = NoResult
    /\ redirects = 0
    /\ sent = NoRequest

\* ---------------------------------------------------------- construction

\* ApiHelper.__init__(baseurl, auth)
ApiHelper_init(baseurl, auth) ==
    [state |-> "open",
     cls |-> IF baseurl # EmptyUrl THEN "BaseUrlSession" ELSE "Session",
     base_url |-> IF baseurl # EmptyUrl THEN baseurl ELSE EmptyUrl,
     auth |-> IF auth # NoAuth THEN auth ELSE NoAuth,
     closed |-> FALSE,
     body_exc |-> FALSE,
     adapters |-> [p \in Prefixes |-> TimeoutHTTPAdapter_init],
     hooks |-> <<"assert_status_hook">>]

\* A helper is constructed; one constructed before under the same name is
\* dropped.
Construct(h, baseurl, auth) ==
    /\ pc = "idle"
    /\ helper' = [helper EXCEPT ![h] = ApiHelper_init(baseurl, auth)]
    /\ UNCHANGED <<default_retry_strategy, pc, callVars>>

\* ----------------------------------------------------------- scoped use

\* __enter__ returns self.
ApiHelper_enter(self) == [self EXCEPT !.state = "entered"]

\* __exit__ closing the session only when the body ended normally.
ApiHelper_exit_on_success(self, exc_type) ==
    [self EXCEPT !.state = "exited",
                 !.closed = (exc_type = NoException),
                 !.body_exc = (exc_type # NoException)]

\* __exit__(exc_type, exc_val, exc_tb) closes the session and returns None,
\* so an exception raised in the body goes on to the caller.
ApiHelper_exit(self, exc_type) ==
    [self EXCEPT !.state = "exited", !.closed = TRUE,
                 !.body_exc = (exc_type # NoException)]

Enter(h) ==
    /\ pc = "idle"
    /\ helper[h].state = "open"
    /\ helper' = [helper EXCEPT ![h] = ApiHelper_enter(@)]
    /\ UNCHANGED <<default_retry_strategy, pc, callVars>>

\* The body of the with statement ends, normally or by an exception.
Exit(h, exc_type) ==
    /\ pc = "idle"
    /\ helper[h].state = "entered"
    /\ helper' = [helper EXCEPT ![h] = ApiHelper_exit(@, exc_type)]
    /\ UNCHANGED <<default_retry_strategy, pc, callVars>>

\* ------------------------------------------------------- request pipeline

\* BearerAuth.__call__ keeping an Authorization header already there.
BearerAuth_call_setdefault(token, headers_authorization) ==
    IF headers_authorization # "None" THEN headers_authorization
    ELSE "Bearer " \o token

\* BearerAuth.__call__: r.headers["Authorization"] = "Bearer " + self.token
BearerAuth_call(token, headers_authorization) == "Bearer " \o token

\* create_url gluing the URL to the base URL instead of resolving it.
create_url_concat(self, url) ==
    IF self.cls = "BaseUrlSession"
    THEN Url(self.base_url.scheme, self.base_url.netloc,
             self.base_url.path \o url.path)
    ELSE url

\* BaseUrlSession.create_url; a plain Session takes the URL as given.
create_url(self, url) ==
    IF self.cls = "BaseUrlSession" THEN urljoin(self.base_url, url) ELSE url

\* Session.prepare_request: the call's auth, or else the session's, is
\* applied to the request after the caller's headers.
prepare_auth(self, auth, headers_authorization) ==
    LET merged == IF auth # NoAuth THEN auth ELSE self.auth IN
    IF merged # NoAuth THEN BearerAuth_call(merged, headers_authorization)
    ELSE headers_authorization

\* Session.request: response hooks of the call replace the session's.
merge_hooks(request_hooks, session_hooks) ==
    IF session_hooks = <<>> THEN request_hooks
    ELSE IF request_hooks = <<>> THEN session_hooks
    ELSE request_hooks

\* Session.get_adapter: the adapter mounted for the URL's prefix.
get_adapter(self, url) == self.adapters[url.scheme \o "://"]

\* TimeoutHTTPAdapter.send setting its own timeout whatever the caller gave.
TimeoutHTTPAdapter_send_always(adapter, timeout) ==
    IF adapter.cls = "TimeoutHTTPAdapter" THEN adapter.timeout ELSE timeout

\* TimeoutHTTPAdapter.send: the timeout handed to HTTPAdapter.send.
TimeoutHTTPAdapter_send(adapter, timeout) ==
    IF adapter.cls = "TimeoutHTTPAdapter" /\ ~timeout.given
    THEN adapter.timeout ELSE timeout

\* HTTPAdapter.send builds a urllib3 Timeout, which refuses a value <= 0.
InvalidTimeout(timeout) == timeout.given /\ timeout.seconds <= 0

\* raise_for_status raising for server errors only.
raise_for_status_5xx(status) == 500 <= status /\ status < 600

\* Response.raise_for_status
raise_for_status(status) == 400 <= status /\ status < 600

\* Whether assert_status_hook is among the hooks and raises HTTPError.
assert_status_hook(hooks, response) ==
    /\ "assert_status_hook" \in {hooks[i] : i \in DOMAIN hooks}
    /\ raise_for_status(response.status)

\* Retry.increment counting down in the object it was called on.
increment_in_place(shared, retry) ==
    [shared |-> incremented(retry), retry |-> incremented(retry)]

\* Retry.increment called by urlopen on the Retry object it was given:
\* the object the adapter holds (shared) and the one urlopen goes on with.
increment(shared, retry) ==
    [shared |-> shared, retry |-> incremented(retry)]

\* The decorator without the assignment of the wrapped method's result.
http_exceptions_eaten(raised, returned) ==
    IF raised = NoException THEN [kind |-> "False", value |-> NoResponse]
    ELSE IF \E i \in DOMAIN ExceptClauses : IsInstance(raised, ExceptClauses[i])
         THEN [kind |-> "False", value |-> NoResponse]
    ELSE [kind |-> "raised", value |-> NoResponse]

\* The decorator: the value the caller gets for an exception, or for the
\* wrapped method's return value when none was raised.
http_exceptions(raised, returned) ==
    IF raised = NoException THEN Returned(returned)
    ELSE IF \E i \in DOMAIN ExceptClauses : IsInstance(raised, ExceptClauses[i])
         THEN False
    ELSE Propagated

\* SessionRedirectMixin.should_strip_auth, for URLs without explicit ports.
should_strip_auth(old_url, new_url) ==
    IF old_url.netloc # new_url.netloc THEN TRUE
    ELSE IF old_url.scheme = "http" /\ new_url.scheme = "https" THEN FALSE
    ELSE old_url.scheme # new_url.scheme

\* SessionRedirectMixin.rebuild_method for a 302.
rebuild_method(method, status) ==
    IF status = 302 /\ method # "HEAD" THEN "GET" ELSE method

\* Session.request up to the first adapter.send: the URL is resolved, the
\* request prepared, the adapter chosen and the timeout set.
BeginRequest(h, method, url, kw, allow_redirects) ==
    LET self == helper[h]
        full == create_url(self, url)
        send_timeout ==
            TimeoutHTTPAdapter_send(get_adapter(self, full), kw.timeout)
    IN
    /\ pc = "idle"
    /\ self.state # "none"
    /\ call' = [h |-> h, method |-> method, url |-> url,
                timeout |-> kw.timeout, auth |-> kw.auth, hooks |-> kw.hooks,
                allow_redirects |-> allow_redirects]
    /\ IF ~IsAbsolute(full)
       THEN /\ exc' = "MissingSchema"
            /\ pc' = "raise"
            /\ UNCHANGED <<req, retries>>
       ELSE /\ req' = [method |-> method, url |-> full,
                       authorization |->
                           prepare_auth(self, kw.auth, kw.headers_authorization),
                       timeout |-> send_timeout]
            /\ IF InvalidTimeout(send_timeout)
               THEN /\ exc' = "ValueError"
                    /\ pc' = "raise"
                    /\ UNCHANGED retries
               ELSE /\ exc' = NoException
                    /\ pc' = "urlopen"
                    /\ retries' = default_retry_strategy
    /\ UNCHANGED <<default_retry_strategy, helper, attempts, sleeps, pure,
                   resp, result, redirects, sent>>

\* The verb methods; kwargs holds timeout, auth, hooks and the Authorization
\* header of headers. head does not follow redirects unless told to.
get(h, url, kwargs) == BeginRequest(h, "GET", url, kwargs, TRUE)

options(h, url, kwargs) == BeginRequest(h, "OPTIONS", url, kwargs, TRUE)

head(h, url, kwargs) == BeginRequest(h, "HEAD", url, kwargs, FALSE)

post(h, url, kwargs) == BeginRequest(h, "POST", url, kwargs, TRUE)

put(h, url, kwargs) == BeginRequest(h, "PUT", url, kwargs, TRUE)

patch(h, url, kwargs) == BeginRequest(h, "PATCH", url, kwargs, TRUE)

delete(h, url, kwargs) == BeginRequest(h, "DELETE", url, kwargs, TRUE)

\* One attempt of HTTPConnectionPool.urlopen and what it does with the
\* outcome: retry after a sleep, give up, or hand the response back.
urlopen(outcome) ==
    LET inc == increment(default_retry_strategy, retries)
        retry_error ==
            /\ outcome.error # NoException
            /\ ~(outcome.error = "ReadTimeoutError"
                 /\ ~is_method_retryable(retries, req.method))
        retry_status ==
            /\ outcome.error = NoException
            /\ is_retry(retries, req.method, outcome)
    IN
    /\ pc = "urlopen"
    /\ outcome.status = 302 => redirects < MaxRedirects
    /\ attempts' = attempts + 1
    /\ sent' = req
    /\ resp' = outcome
    /\ pure' = (pure /\ outcome.status \in StatusForcelist
                     /\ ~has_retry_after(outcome))
    /\ IF retry_error \/ retry_status
       THEN /\ default_retry_strategy' = inc.shared
            /\ IF is_exhausted(inc.retry)
               THEN /\ exc' = MaxRetryErrorAs(outcome)
                    /\ pc' = "raise"
                    /\ UNCHANGED <<retries, sleeps>>
               ELSE /\ retries' = inc.retry
                    /\ sleeps' = Append(sleeps, sleep_time(inc.retry, outcome))
                    /\ pc' = "urlopen"
                    /\ UNCHANGED exc
       ELSE /\ IF outcome.error # NoException
               THEN exc' = "ReadTimeout" /\ pc' = "raise"
               ELSE exc' = exc /\ pc' = "hook"
            /\ UNCHANGED <<default_retry_strategy, retries, sleeps>>
    /\ UNCHANGED <<helper, call, req, result, redirects>>

\* Session.send dispatches the response hooks.
dispatch_hook ==
    /\ pc = "hook"
    /\ IF assert_status_hook(merge_hooks(call.hooks, helper[call.h].hooks), resp)
       THEN exc' = "HTTPError" /\ pc' = "raise"
       ELSE exc' = exc /\ pc' = "redirect"
    /\ UNCHANGED <<default_retry_strategy, helper, call, req, retries,
                   attempts, sleeps, pure, resp, result, redirects, sent>>

\* Session.send follows a redirect with a rebuilt request, or returns.
resolve_redirects ==
    LET self == helper[call.h]
        url == resp.location
        send_timeout == TimeoutHTTPAdapter_send(get_adapter(self, url), call.timeout)
    IN
    /\ pc = "redirect"
    /\ IF call.allow_redirects /\ resp.status = 302 /\ url # EmptyUrl
       THEN /\ req' = [method |-> rebuild_method(req.method, resp.status),
                       url |-> url,
                       authorization |->
                           IF should_strip_auth(req.url, url) THEN NoAuth
                           ELSE req.authorization,
                       timeout |-> send_timeout]
            /\ redirects' = redirects + 1
            /\ retries' = default_retry_strategy
            /\ attempts' = 0
            /\ sleeps' = <<>>
            /\ pure' = TRUE
            /\ pc' = "urlopen"
       ELSE /\ pc' = "return"
            /\ UNCHANGED <<req, redirects, retries, attempts, sleeps, pure>>
    /\ UNCHANGED <<default_retry_strategy, helper, call, resp, exc, result,
                   sent>>

\* The decorator's wrapper returns to the caller of the verb method.
wrapper ==
    /\ pc \in {"raise", "return"}
    /\ result' = http_exceptions(exc, resp)
    /\ pc' = "done"
    /\ UNCHANGED <<default_retry_strategy, helper, call, req, retries,
                   attempts, sleeps, pure, resp, exc, redirects, sent>>

\* The caller goes on; the next call starts afresh.
Resume ==
    /\ pc = "done"
    /\ pc' = "idle"
    /\ call' = NoCall
    /\ req' = NoRequest
    /\ retries' = DefaultRetryStrategy
    /\ attempts' = 0
    /\ sleeps' = <<>>
    /\ pure' = TRUE
    /\ resp' = NoResponse
    /\ exc' = NoException
    /\ result' = NoResult
    /\ redirects' = 0
    /\ sent' = NoRequest
    /\ UNCHANGED <<default_retry_strategy, helper>>

\* The keyword arguments of a call, from the given sets.
Kwargs(timeouts, auths, hooks, auth_headers) ==
    [timeout : timeouts, auth : auths, hooks : hooks,
     headers_authorization : auth_headers]

\* The verb methods, called with arguments from the given sets.
Verbs(hs, urls, kwargs) ==
    \E h \in hs, u \in urls, kw \in kwargs :
        \/ get(h, u, kw)
        \/ options(h, u, kw)
        \/ head(h, u, kw)
        \/ post(h, u, kw)
        \/ put(h, u, kw)
        \/ patch(h, u, kw)
        \/ delete(h, u, kw)

\* The steps of a call in progress, the transport answering from outcomes.
Steps(outcomes) ==
    \/ \E o \in outcomes : urlopen(o)
    \/ dispatch_hook
    \/ resolve_redirects
    \/ wrapper
    \/ Resume

\* Retries and failures: two sessions without base URL or auth, every
\* outcome of the transport.
Next ==
    \/ \E h \in Helpers : Construct(h, EmptyUrl, NoAuth)
    \/ Verbs(Helpers, {AbsUsers, RelUsers},
             Kwargs({NoTimeout, Timeout(0)}, {NoAuth}, CallHooks, {NoAuth}))
    \/ Steps(Outcomes)

Spec == Init /\ [][Next]_vars

\* What a request carries: one session of every configuration, every
\* argument of the verb methods but hooks, a transport without Retry-After
\* headers.
RequestOutcomes ==
    {Response(st, NoHeader, EmptyUrl) : st \in {200, 404, 500}}
    \cup {Response(302, NoHeader, loc) : loc \in RedirectTargets}
    \cup {TransportError("ConnectTimeoutError")}

NextRequest ==
    \/ \E b \in BaseUrls, a \in {NoAuth} \cup Tokens : Construct("h1", b, a)
    \/ Verbs({"h1"}, CallUrls,
             Kwargs(CallTimeouts, CallAuths, {NoHooks}, CallerAuthHeaders))
    \/ Steps(RequestOutcomes)

SpecRequest == Init /\ [][NextRequest]_vars

\* Scoped use: two sessions entered and left, calls made in between.
ScopeOutcomes == {Response(st, NoHeader, EmptyUrl) : st \in {200, 404}}

NextScope ==
    \/ \E h \in Helpers, b \in {EmptyUrl, BaseRoot} : Construct(h, b, NoAuth)
    \/ \E h \in Helpers : Enter(h)
    \/ \E h \in Helpers, e \in {NoException, "Exception"} : Exit(h, e)
    \/ Verbs(Helpers, {RelUsers},
             Kwargs({NoTimeout}, {NoAuth}, {NoHooks}, {NoAuth}))
    \/ Steps(ScopeOutcomes)

SpecScope == Init /\ [][NextScope]_vars

\* ------------------------------------------------------------ properties

\* The last attempt drew a response from the server.
Received == attempts >= 1 /\ resp.error = NoException

IsSuccess(status) == 200 <= status /\ status < 300
IsClientOrServerError(status) == 400 <= status /\ status < 600

\* The exceptions requests raises for a failed request: a transport failure
\* (connection error, timeout), an HTTP-status error, an exhausted retry
\* budget, a generic request failure.
RequestFailures ==
    {"ConnectionError", "ConnectTimeout", "ReadTimeout", "HTTPError",
     "RetryError", "MissingSchema"}

\* C1: whatever the verb and whichever request failure ends the call, the
\* verb method hands its caller the value False and no exception.
C1_FailuresReturnFalse ==
    (pc = "done" /\ exc \in RequestFailures) => result = False

C1_Witness ==
    /\ pc = "done"
    /\ call.method = "DELETE"
    /\ exc = "ConnectTimeout"
    /\ result = False

\* C2: a response with a 2xx status raises nothing and is what the verb
\* method returns, with the status and headers the transport produced.
C2_SuccessReturned ==
    (Received /\ IsSuccess(resp.status)) =>
        /\ exc = NoException
        /\ pc # "raise"
        /\ pc = "done" => result = Returned(resp)

C2_Witness ==
    /\ pc = "done"
    /\ attempts = 2
    /\ resp = Response(200, "5", EmptyUrl)
    /\ result = Returned(Response(200, "5", EmptyUrl))

\* What becomes of a response that is not to be retried: no further attempt
\* follows it, it is not returned, and the call ends with False.
FailsAtOnce ==
    /\ pc \notin {"urlopen", "redirect", "return"}
    /\ pc = "raise" => exc = "HTTPError"
    /\ pc = "done" => result = False

C5_RetryAfterHonoured ==
    (/\ pc = "urlopen"
     /\ Received
     /\ resp.status = 429
     /\ resp.retry_after = "5") => sleeps[Len(sleeps)] = 5000

C5_Witness ==
    /\ pc = "urlopen"
    /\ resp = Response(429, "5", EmptyUrl)
    /\ attempts = 3
    /\ sleeps = <<0, 600, 5000>>

\* C6: every request handed to the transport carries a timeout: the
\* caller's when the call gives one, REQUEST_TIMEOUT otherwise.
C6_TimeoutCarried ==
    sent # NoRequest =>
        /\ sent.timeout.given
        /\ sent.timeout =
               IF call.timeout.given THEN call.timeout
               ELSE Timeout(REQUEST_TIMEOUT)

C6_Witness ==
    /\ sent # NoRequest
    /\ ~call.timeout.given
    /\ sent.url.scheme = "http"
    /\ sent.timeout = Timeout(5)

\* The directory of a base path: the path without its last segment.
Dirname(path) == IF Len(path) > 1 THEN Front(path) ELSE <<"">>

\* RFC 3986 resolution of a reference without dot segments.
Resolved(base, url) ==
    IF base = EmptyUrl \/ IsAbsolute(url) THEN url
    ELSE Url(base.scheme, base.netloc,
             IF IsRooted(url) THEN url.path ELSE Dirname(base.path) \o url.path)

\* C7: the first request of a call goes to the call's URL resolved against
\* the session's base URL when it is relative and a base URL is set, and to
\* the URL as given otherwise; a session with a base URL refuses no relative
\* URL.
C7_UrlResolved ==
    LET self == helper[call.h] IN
    /\ (sent # NoRequest /\ redirects = 0) =>
           /\ sent.url = Resolved(self.base_url, call.url)
           /\ (self.base_url = BaseRoot /\ call.url = RelUsers) =>
                  sent.url = AbsUsers
    /\ exc = "MissingSchema" =>
           self.base_url = EmptyUrl /\ ~IsAbsolute(call.url)

C7_Witness ==
    /\ helper[call.h].base_url = BaseRoot
    /\ call.url = RelUsers
    /\ call.method = "PUT"
    /\ sent.url = Url("https", "api.example.com", <<"", "v1", "users">>)

C9_ClosedOnExit ==
    \A h \in Helpers : helper[h].state = "exited" => helper[h].closed

C9_Witness ==
    \E h \in Helpers :
        /\ helper[h].state = "exited"
        /\ helper[h].body_exc
        /\ helper[h].closed

\* C10: the module-level retry policy keeps its values whatever requests
\* have run, and every request of every session starts with all of it.
C10_PolicyUnchanged ==
    /\ default_retry_strategy = DefaultRetryStrategy
    /\ (pc = "urlopen" /\ attempts = 0) =>
           /\ retries.total = RetryTotal
           /\ retries.history = 0
           /\ retries.status_forcelist = StatusForcelist
           /\ retries.allowed_methods = AllowedMethods

C10_Witness ==
    /\ pc = "urlopen"
    /\ call.h = "h2"
    /\ attempts = 3
    /\ retries.total = 0
    /\ default_retry_strategy.total = 3

====
